---- MODULE Spec2Model ----
(***************************************************************************)
(* turtles: get_critical_number scans a sequence of u128 steps with a      *)
(* sliding window (SortedTunnel) of the tunnel_len preceding steps and     *)
(* reports the first step that is not the sum of two of them.              *)
(*                                                                         *)
(* The model follows src/src/lib.rs statement by statement.  Steps are     *)
(* u128 in the program; the model draws them from 0..MaxStep, so that no   *)
(* sum comes near 2^128 and addition never overflows.                      *)
(***************************************************************************)
EXTENDS Integers, Sequences, FiniteSets, TLC

\* ---------------------------------------------------------------- bounds
MaxStep == 3       \* steps are drawn from 0..MaxStep
MaxSteps == 5      \* the input holds at most MaxSteps steps
MaxTunnelLen == 3  \* tunnel_len is drawn from 1..MaxTunnelLen

VARIABLES
    steps,          \* the input sequence behind the iterator steps_in_tunnel
    tunnel_len,     \* argument tunnel_len
    pos,            \* number of items pulled from the underlying iterator
    tunnel,         \* Vec collected from the first tunnel_len steps
    peeked,         \* Peekable's buffer: <<>>, or <<item>> with item an Option
    sorted_tunnel,  \* Option<SortedTunnel>: None before SortedTunnel::new
    count,          \* Enumerate's counter
    cur,            \* the (index, step) pair bound by the for loop
    result,         \* the returned Option<IndexedStep>
    pc,             \* position in get_critical_number
    run,            \* which call of get_critical_number this is (1 or 2)
    first,          \* what the first call returned and went through
    trace           \* the window states the current call went through

vars == <<steps, tunnel_len, pos, tunnel, peeked, sorted_tunnel, count, cur,
          result, pc, run, first, trace>>

\* ------------------------------------------------------------ Option<T>
None == <<>>
Some(x) == <<x>>

Min(a, b) == IF a <= b THEN a ELSE b

\* all sequences over S of length 0..n
SeqsUpTo(S, n) == UNION {[1..k -> S] : k \in 0..n}

\* ----------------------------------------------------- BTreeMap helpers
\* BTreeMap::new()
EmptyMap == [k \in {} |-> <<>>]

\* does the VecDeque hold x (VecDeque::contains)
Contains(ages, x) == \E k \in 1..Len(ages) : ages[k] = x

\* a sequence reversed
RECURSIVE ReverseSeq(_)
ReverseSeq(sq) ==
    IF sq = <<>> THEN <<>> ELSE Append(ReverseSeq(Tail(sq)), Head(sq))

\* the elements of a set of steps in ascending order
RECURSIVE SortedSeq(_)
SortedSeq(S) ==
    IF S = {} THEN <<>>
    ELSE LET m == CHOOSE x \in S : \A y \in S : x <= y
         IN <<m>> \o SortedSeq(S \ {m})

\* mutant of Keys: a hashed map, whose iteration order differs from one map
\* to the next
Keys_Hashed(map) ==
    IF run = 1 THEN SortedSeq(DOMAIN map)
    ELSE ReverseSeq(SortedSeq(DOMAIN map))

\* the keys of a BTreeMap in iteration order (ascending)
Keys(map) == SortedSeq(DOMAIN map)

\* AddDuplicate::add_duplicate on the map: push the age at the back of the
\* key's queue, or insert the key with a queue of that one age
add_duplicate(map, step, age) ==
    IF step \in DOMAIN map
    THEN [map EXCEPT ![step] = Append(@, age)]
    ELSE [k \in DOMAIN map \cup {step} |->
             IF k = step THEN <<age>> ELSE map[k]]

\* the for loop of SortedTunnel::new: ages are the 0-based positions
RECURSIVE SeedFrom(_, _, _)
SeedFrom(map, tnl, k) ==
    IF k > Len(tnl) THEN map
    ELSE SeedFrom(add_duplicate(map, tnl[k], k - 1), tnl, k + 1)

\* mutant of new: the stored length is the number of steps
new_FullLength(tnl) ==
    [tunnel_map |-> SeedFrom(EmptyMap, tnl, 1),
     tunnel_length |-> Len(tnl)]

\* SortedTunnel::new
new(tnl) ==
    [tunnel_map |-> SeedFrom(EmptyMap, tnl, 1),
     tunnel_length |-> Len(tnl) - 1]

\* ------------------------------------------------------- SortedTunnel
\* remove_oldest_step, the search: the first key, in ascending order, whose
\* queue of ages contains 0
TargetStep(map) ==
    LET S == {k \in DOMAIN map : Contains(map[k], 0)}
    IN IF S = {} THEN None
       ELSE Some(CHOOSE x \in S : \A y \in S : x <= y)

\* mutant of PopOldest: pop_back, the newest of the equal steps is removed
PopOldest_Back(map, step) ==
    LET ages_ref == SubSeq(map[step], 1, Len(map[step]) - 1)
    IN IF Len(ages_ref) = 0
       THEN [k \in DOMAIN map \ {step} |-> map[k]]
       ELSE [map EXCEPT ![step] = ages_ref]

\* mutant of PopOldest: the key stays in the map with an empty queue
PopOldest_KeepKey(map, step) ==
    [map EXCEPT ![step] = Tail(map[step])]

\* remove_oldest_step, the removal: pop_front on the key's queue, and the
\* key is removed when its queue becomes empty
PopOldest(map, step) ==
    LET ages_ref == Tail(map[step])
    IN IF Len(ages_ref) = 0
       THEN [k \in DOMAIN map \ {step} |-> map[k]]
       ELSE [map EXCEPT ![step] = ages_ref]

\* mutant of DecrementAges: the remaining ages are left as they are
DecrementAges_Kept(map) == map

\* remove_oldest_step, the ageing: every remaining age is decremented
DecrementAges(map) ==
    [k \in DOMAIN map |-> [i \in 1..Len(map[k]) |-> map[k][i] - 1]]

\* an age 0 that is still there when the ages are decremented: `*age -= 1`
\* on a usize 0
AgeUnderflows(map) ==
    \E k \in DOMAIN map : Contains(map[k], 0)

\* remove_oldest_step: the map without its oldest step, or None where the
\* code panics.  An underflowing `*age -= 1` panics in a build with
\* overflow checks and wraps in a build without; ages are only compared
\* with 0 and decremented, so the wrapped age usize::MAX is kept as its
\* representative -1 modulo 2^64.
remove_oldest_step(map, overflow_checks) ==
    LET target_step == TargetStep(map)
    IN IF target_step = None THEN None
       ELSE LET popped == PopOldest(map, target_step[1])
            IN IF overflow_checks /\ AgeUnderflows(popped) THEN None
               ELSE Some(DecrementAges(popped))

\* shift_right: the oldest step is replaced by new_step, which gets the
\* age tunnel_length; None where remove_oldest_step panics
shift_right(self, new_step, overflow_checks) ==
    LET removed == remove_oldest_step(self.tunnel_map, overflow_checks)
    IN IF removed = None THEN None
       ELSE Some([tunnel_map |-> add_duplicate(removed[1], new_step,
                                               self.tunnel_length),
                  tunnel_length |-> self.tunnel_length])

\* is_tunnel_safe, line 170: candidate_a and every later key is too large
Prune(candidate_a, new_step) == candidate_a >= new_step

\* mutant of EqualPair: a single occurrence is paired with itself
EqualPair_Single(ages_a, candidate_a, new_step) ==
    candidate_a * 2 = new_step

\* is_tunnel_safe, line 174: two occurrences of candidate_a make new_step
EqualPair(ages_a, candidate_a, new_step) ==
    Len(ages_a) > 1 /\ candidate_a * 2 = new_step

\* mutant of InnerLoop: Ordering::Greater is taken for a match too
RECURSIVE InnerLoop_OrGreater(_, _, _, _)
InnerLoop_OrGreater(keys, candidate_a, j, new_step) ==
    IF j > Len(keys) THEN FALSE
    ELSE LET candidate_b == keys[j]
         IN IF candidate_a + candidate_b >= new_step THEN TRUE
            ELSE InnerLoop_OrGreater(keys, candidate_a, j + 1, new_step)

\* is_tunnel_safe, the inner loop over the keys after candidate_a: TRUE on
\* Ordering::Equal, FALSE on Ordering::Greater (continue 'outer) and when
\* the keys are exhausted
RECURSIVE InnerLoop(_, _, _, _)
InnerLoop(keys, candidate_a, j, new_step) ==
    IF j > Len(keys) THEN FALSE
    ELSE LET candidate_b == keys[j]
         IN IF candidate_a + candidate_b = new_step THEN TRUE
            ELSE IF candidate_a + candidate_b > new_step THEN FALSE
            ELSE InnerLoop(keys, candidate_a, j + 1, new_step)

\* mutant of OuterLoop: the inner loop starts at candidate_a itself
RECURSIVE OuterLoop_SelfPair(_, _, _, _)
OuterLoop_SelfPair(map, keys, i, new_step) ==
    IF i > Len(keys) THEN FALSE
    ELSE LET candidate_a == keys[i]
         IN IF Prune(candidate_a, new_step) THEN FALSE
            ELSE IF EqualPair(map[candidate_a], candidate_a, new_step)
                 THEN TRUE
            ELSE IF InnerLoop(keys, candidate_a, i, new_step) THEN TRUE
            ELSE OuterLoop_SelfPair(map, keys, i + 1, new_step)

\* is_tunnel_safe, the outer loop over the keys in ascending order
RECURSIVE OuterLoop(_, _, _, _)
OuterLoop(map, keys, i, new_step) ==
    IF i > Len(keys) THEN FALSE
    ELSE LET candidate_a == keys[i]
         IN IF Prune(candidate_a, new_step) THEN FALSE
            ELSE IF EqualPair(map[candidate_a], candidate_a, new_step)
                 THEN TRUE
            ELSE IF InnerLoop(keys, candidate_a, i + 1, new_step) THEN TRUE
            ELSE OuterLoop(map, keys, i + 1, new_step)

\* SortedTunnel::is_tunnel_safe
is_tunnel_safe(self, new_step) ==
    OuterLoop(self.tunnel_map, Keys(self.tunnel_map), 1, new_step)

\* mutant of IndexedStep: the index counts from the end of the seed
IndexedStep_Relative(index, step, len) == [step |-> step, index |-> index]

\* the IndexedStep returned for a collapsing step (lines 70-73)
IndexedStep(index, step, len) == [step |-> step, index |-> index + len]

\* ------------------------------------------------- get_critical_number
Terminal == {"VacuouslySafe", "Found", "Safe", "Panic"}

Init ==
    /\ tunnel_len \in 1..MaxTunnelLen
    /\ steps \in SeqsUpTo(0..MaxStep, MaxSteps)
    /\ pos = 0
    /\ tunnel = <<>>
    /\ peeked = <<>>
    /\ sorted_tunnel = None
    /\ count = 0
    /\ cur = None
    /\ result = None
    /\ pc = "Seeding"
    /\ run = 1
    /\ first = None
    /\ trace = <<>>

\* mutant of Take: one step too few is taken
Take_OneShort ==
    /\ pc = "Seeding"
    /\ tunnel' = SubSeq(steps, 1, Min(tunnel_len - 1, Len(steps)))
    /\ pos' = Min(tunnel_len - 1, Len(steps))
    /\ pc' = "Peek"
    /\ UNCHANGED <<steps, tunnel_len, peeked, sorted_tunnel, count, cur,
                   result, run, first, trace>>

\* line 57: by_ref().take(tunnel_len).collect() pulls the first tunnel_len
\* steps, or all of them when there are fewer
Take ==
    /\ pc = "Seeding"
    /\ tunnel' = SubSeq(steps, 1, Min(tunnel_len, Len(steps)))
    /\ pos' = Min(tunnel_len, Len(steps))
    /\ pc' = "Peek"
    /\ UNCHANGED <<steps, tunnel_len, peeked, sorted_tunnel, count, cur,
                   result, run, first, trace>>

\* lines 58-63: peek() pulls one more item into Peekable's buffer; the
\* function returns None when there is none
Peek ==
    /\ pc = "Peek"
    /\ IF pos < Len(steps)
       THEN /\ peeked' = Some(Some(steps[pos + 1]))
            /\ pos' = pos + 1
            /\ pc' = "New"
            /\ UNCHANGED result
       ELSE /\ peeked' = Some(None)
            /\ pos' = pos
            /\ result' = None
            /\ pc' = "VacuouslySafe"
    /\ UNCHANGED <<steps, tunnel_len, tunnel, sorted_tunnel, count, cur,
                   run, first, trace>>

\* lines 65-67: the window is built from the collected steps and the loop
\* is set up over enumerate()
New ==
    /\ pc = "New"
    /\ sorted_tunnel' = Some(new(tunnel))
    /\ count' = 0
    /\ trace' = Append(trace, new(tunnel))
    /\ pc' = "Scanning"
    /\ UNCHANGED <<steps, tunnel_len, pos, tunnel, peeked, cur, result,
                   run, first>>

\* Peekable::next: the buffered item if there is one, else the next item
\* of the underlying iterator
PeekableNext ==
    IF peeked # <<>> THEN peeked[1]
    ELSE IF pos < Len(steps) THEN Some(steps[pos + 1])
    ELSE None

\* mutant of LoopNext: the loop looks one item ahead
LoopNext_Prefetch ==
    /\ pc = "Scanning"
    /\ LET item == PeekableNext
           taken == IF peeked = <<>> /\ pos < Len(steps) THEN pos + 1 ELSE pos
       IN /\ pos' = IF taken < Len(steps) THEN taken + 1 ELSE taken
          /\ peeked' = <<>>
          /\ IF item = None
             THEN /\ result' = None
                  /\ pc' = "Safe"
                  /\ UNCHANGED <<cur, count>>
             ELSE /\ cur' = Some([index |-> count, step |-> item[1]])
                  /\ count' = count + 1
                  /\ pc' = "Query"
                  /\ UNCHANGED result
    /\ UNCHANGED <<steps, tunnel_len, tunnel, sorted_tunnel, run, first,
                   trace>>

\* mutant of LoopNext: the loop does not end when the input is exhausted
LoopNext_Spin ==
    /\ pc = "Scanning"
    /\ LET item == PeekableNext
       IN /\ pos' = IF peeked = <<>> /\ pos < Len(steps) THEN pos + 1 ELSE pos
          /\ peeked' = <<>>
          /\ IF item = None
             THEN /\ result' = None
                  /\ pc' = "Scanning"
                  /\ UNCHANGED <<cur, count>>
             ELSE /\ cur' = Some([index |-> count, step |-> item[1]])
                  /\ count' = count + 1
                  /\ pc' = "Query"
                  /\ UNCHANGED result
    /\ UNCHANGED <<steps, tunnel_len, tunnel, sorted_tunnel, run, first,
                   trace>>

\* line 67: the for loop asks enumerate() for the next (index, step); the
\* function returns None (line 78) when the input is exhausted
LoopNext ==
    /\ pc = "Scanning"
    /\ LET item == PeekableNext
       IN /\ pos' = IF peeked = <<>> /\ pos < Len(steps) THEN pos + 1 ELSE pos
          /\ peeked' = <<>>
          /\ IF item = None
             THEN /\ result' = None
                  /\ pc' = "Safe"
                  /\ UNCHANGED <<cur, count>>
             ELSE /\ cur' = Some([index |-> count, step |-> item[1]])
                  /\ count' = count + 1
                  /\ pc' = "Query"
                  /\ UNCHANGED result
    /\ UNCHANGED <<steps, tunnel_len, tunnel, sorted_tunnel, run, first,
                   trace>>

\* mutant of Query: the query admits the step it found safe
Query_Admitting ==
    /\ pc = "Query"
    /\ IF ~is_tunnel_safe(sorted_tunnel[1], cur[1].step)
       THEN /\ result' = Some(IndexedStep(cur[1].index, cur[1].step,
                                          tunnel_len))
            /\ pc' = "Found"
            /\ UNCHANGED sorted_tunnel
       ELSE /\ pc' = "Shift"
            /\ sorted_tunnel' =
                   Some([sorted_tunnel[1] EXCEPT !.tunnel_map =
                            add_duplicate(@, cur[1].step,
                                          sorted_tunnel[1].tunnel_length)])
            /\ UNCHANGED result
    /\ UNCHANGED <<steps, tunnel_len, pos, tunnel, peeked, count, cur, run,
                   first, trace>>

\* mutant of Query: the collapsing step is recorded but the loop goes on
Query_NoReturn ==
    /\ pc = "Query"
    /\ IF ~is_tunnel_safe(sorted_tunnel[1], cur[1].step)
       THEN /\ result' = Some(IndexedStep(cur[1].index, cur[1].step,
                                          tunnel_len))
            /\ pc' = "Shift"
       ELSE /\ pc' = "Shift"
            /\ UNCHANGED result
    /\ UNCHANGED <<steps, tunnel_len, pos, tunnel, peeked, sorted_tunnel,
                   count, cur, run, first, trace>>

\* lines 68-74: the step is queried; a step that is not safe is returned
\* with its index
Query ==
    /\ pc = "Query"
    /\ IF ~is_tunnel_safe(sorted_tunnel[1], cur[1].step)
       THEN /\ result' = Some(IndexedStep(cur[1].index, cur[1].step,
                                          tunnel_len))
            /\ pc' = "Found"
       ELSE /\ pc' = "Shift"
            /\ UNCHANGED result
    /\ UNCHANGED <<steps, tunnel_len, pos, tunnel, peeked, sorted_tunnel,
                   count, cur, run, first, trace>>

\* line 75: the window is shifted by the safe step; the build is with or
\* without overflow checks
Shift ==
    /\ pc = "Shift"
    /\ \E overflow_checks \in BOOLEAN :
          LET shifted == shift_right(sorted_tunnel[1], cur[1].step,
                                     overflow_checks)
          IN IF shifted = None
             THEN /\ pc' = "Panic"
                  /\ UNCHANGED <<sorted_tunnel, trace>>
             ELSE /\ sorted_tunnel' = shifted
                  /\ trace' = Append(trace, shifted[1])
                  /\ pc' = "Scanning"
    /\ UNCHANGED <<steps, tunnel_len, pos, tunnel, peeked, count, cur,
                   result, run, first>>

Next == Take \/ Peek \/ New \/ LoopNext \/ Query \/ Shift

Spec == Init /\ [][Next]_vars

\* the scan is single-threaded and synchronous: a step that can be taken is
\* taken
FairSpec == Init /\ [][Next]_vars /\ WF_vars(Next)

\* a second call of get_critical_number on the same input and tunnel_len:
\* the iterator is a fresh one over the same steps and every local is new
Rescan ==
    /\ pc \in Terminal
    /\ run = 1
    /\ run' = 2
    /\ first' = Some([result |-> result, pc |-> pc, trace |-> trace])
    /\ pos' = 0
    /\ tunnel' = <<>>
    /\ peeked' = <<>>
    /\ sorted_tunnel' = None
    /\ count' = 0
    /\ cur' = None
    /\ result' = None
    /\ trace' = <<>>
    /\ pc' = "Seeding"
    /\ UNCHANGED <<steps, tunnel_len>>

NextRepeat == Take \/ Peek \/ New \/ LoopNext \/ Query \/ Shift \/ Rescan

SpecRepeat == Init /\ [][NextRepeat]_vars

\* ------------------------------------------------------ the properties
\* the steps at the 0-based positions j - tunnel_len .. j - 1 of the input
\* hold two distinct occurrences whose sum is v
PairBefore(j, v) ==
    \E p, q \in (j - tunnel_len + 1)..j :
        p # q /\ steps[p] + steps[q] = v

\* the occurrences of a window: the (step, age) pairs of its map
Occurrences(self) ==
    UNION {{<<k, self.tunnel_map[k][i]>> : i \in 1..Len(self.tunnel_map[k])} :
           k \in DOMAIN self.tunnel_map}

\* the window holds two occurrences, distinct by age, whose sum is v
PairInWindow(self, v) ==
    \E a, b \in Occurrences(self) : a[2] # b[2] /\ a[1] + b[1] = v

\* the candidates a query is checked with
Candidates == 0..(2 * MaxStep + 1)

\* C1: when the scan returns Some((v, i)), no two distinct occurrences among
\* the tunnel_len steps before position i sum to v, and every step at a
\* position j with tunnel_len <= j < i is the sum of two distinct
\* occurrences among the tunnel_len steps before it.
C1_FoundIsFirstViolation ==
    pc = "Found" =>
        LET i == result[1].index
            v == result[1].step
        IN /\ ~PairBefore(i, v)
           /\ \A j \in tunnel_len..(i - 1) : PairBefore(j, steps[j + 1])

\* C2: when the scan returns None, the input has at most tunnel_len steps
\* or every step at a position i >= tunnel_len is the sum of two distinct
\* occurrences among the tunnel_len steps before it.
C2_NoneMeansNoViolation ==
    pc \in {"VacuouslySafe", "Safe"} =>
        /\ result = None
        /\ \/ Len(steps) <= tunnel_len
           \/ \A i \in tunnel_len..(Len(steps) - 1) :
                  PairBefore(i, steps[i + 1])

C2_Witness ==
    /\ pc = "Safe"
    /\ Len(steps) >= tunnel_len + 2
    /\ \E p, q \in 1..tunnel_len : p # q /\ steps[p] = steps[q]

\* C3: is_tunnel_safe(candidate) is true if and only if the window holds two
\* occurrences, distinct by age, whose sum is the candidate, in every
\* reachable window state and for every candidate.
C3_QueryIffPair ==
    sorted_tunnel # None =>
        \A c \in Candidates :
            is_tunnel_safe(sorted_tunnel[1], c)
                <=> PairInWindow(sorted_tunnel[1], c)

\* C4: for an input of at most tunnel_len steps the scan returns None, no
\* window is constructed and the panic is not reached.
C4_ShortInputIsNone ==
    Len(steps) <= tunnel_len =>
        /\ pc \in {"Seeding", "Peek", "VacuouslySafe"}
        /\ sorted_tunnel = None
        /\ result = None

C4_Witness ==
    /\ pc = "VacuouslySafe"
    /\ Len(steps) = tunnel_len

\* C5: when the scan returns Some((v, i)), i is the 0-based position of the
\* failed step in the input: tunnel_len <= i < Len(steps), and the step at
\* position i is v.
C5_IndexIsAbsolute ==
    pc = "Found" =>
        LET i == result[1].index
        IN /\ tunnel_len <= i
           /\ i < Len(steps)
           /\ steps[i + 1] = result[1].step

C5_Witness ==
    /\ pc = "Found"
    /\ result[1].index > tunnel_len
    /\ tunnel_len > 1

\* C6: once the scan is in a terminal state nothing changes any more, and
\* in the Found state at index i exactly i + 1 steps were pulled from the
\* input.
C6_TerminalIsFinal ==
    /\ [](pc = "Found" => pos = result[1].index + 1)
    /\ [][(pc \in Terminal) => UNCHANGED vars]_vars

C6_Witness ==
    /\ pc = "Found"
    /\ result[1].index + 1 < Len(steps)
    /\ result[1].index > tunnel_len

\* C7: the query does not change the window: the step that runs
\* is_tunnel_safe leaves the map and the stored length as they were, and the
\* query gives the same answer on the window after it.
C7_QueryIsReadOnly ==
    [][pc = "Query" =>
          /\ sorted_tunnel' = sorted_tunnel
          /\ is_tunnel_safe(sorted_tunnel'[1], cur[1].step)
                 = is_tunnel_safe(sorted_tunnel[1], cur[1].step)]_vars

C7_Witness ==
    /\ pc = "Shift"
    /\ cur[1].index > 0

\* is p a prefix of s
IsPrefix(p, s) ==
    /\ Len(p) <= Len(s)
    /\ \A k \in 1..Len(p) : p[k] = s[k]

\* C8: a second scan of the same input with the same tunnel_len goes through
\* the window states of the first one and returns the same result.
C8_Deterministic ==
    run = 2 =>
        /\ IsPrefix(trace, first[1].trace)
        /\ pc \in Terminal =>
              /\ pc = first[1].pc
              /\ result = first[1].result
              /\ trace = first[1].trace

C8_Witness ==
    /\ run = 2
    /\ pc = "Found"
    /\ Len(trace) >= 2

\* the number of occurrences of a window: the lengths of its queues summed
RECURSIVE SumLen(_, _)
SumLen(map, S) ==
    IF S = {} THEN 0
    ELSE LET k == CHOOSE x \in S : TRUE
         IN Len(map[k]) + SumLen(map, S \ {k})

NumOccurrences(self) == SumLen(self.tunnel_map, DOMAIN self.tunnel_map)

\* the ages of a window
Ages(self) == {o[2] : o \in Occurrences(self)}

\* C9: after seeding and after every shift the window holds exactly
\* tunnel_len occurrences and their ages are 0..tunnel_len-1, each once.
C9_AgesArePermutation ==
    sorted_tunnel # None =>
        /\ NumOccurrences(sorted_tunnel[1]) = tunnel_len
        /\ Ages(sorted_tunnel[1]) = 0..(tunnel_len - 1)

C9_Witness ==
    /\ sorted_tunnel # None
    /\ Len(trace) >= 3
    /\ \E k \in DOMAIN sorted_tunnel[1].tunnel_map :
           Len(sorted_tunnel[1].tunnel_map[k]) > 1

\* C10: when the step at position i is queried, the window holds exactly the
\* steps at positions i-tunnel_len..i-1, the occurrence of age k being the
\* step at position i-tunnel_len+k.
C10_WindowIsLastSteps ==
    pc = "Query" =>
        LET i == cur[1].index + tunnel_len
        IN /\ steps[i + 1] = cur[1].step
           /\ NumOccurrences(sorted_tunnel[1]) = tunnel_len
           /\ \A k \in 0..(tunnel_len - 1) :
                  <<steps[i - tunnel_len + k + 1], k>>
                      \in Occurrences(sorted_tunnel[1])

\* a step was evicted while an equal step stayed in the window
C10_Witness ==
    /\ pc = "Query"
    /\ cur[1].index > 0
    /\ LET i == cur[1].index + tunnel_len
       IN \E p \in (i - tunnel_len + 1)..i : steps[p] = steps[i - tunnel_len]

\* C11: the panic of remove_oldest_step is never reached: every shift_right
\* of the scan finds an occurrence of age 0, and no age is decremented
\* below 0.
C11_NoPanic ==
    /\ pc # "Panic"
    /\ pc = "Shift" =>
          LET map == sorted_tunnel[1].tunnel_map
          IN /\ TargetStep(map) # None
             /\ ~AgeUnderflows(PopOldest(map, TargetStep(map)[1]))
             /\ \A overflow_checks \in BOOLEAN :
                    shift_right(sorted_tunnel[1], cur[1].step,
                                overflow_checks) # None
    /\ sorted_tunnel # None => \A a \in Ages(sorted_tunnel[1]) : a >= 0

\* a third shift is about to be made
C11_Witness ==
    /\ pc = "Shift"
    /\ Len(trace) >= 3

\* C12: when a step a has at least two occurrences in the window,
\* is_tunnel_safe(a + a) is true.
C12_EqualPairIsSafe ==
    sorted_tunnel # None =>
        \A a \in DOMAIN sorted_tunnel[1].tunnel_map :
            Len(sorted_tunnel[1].tunnel_map[a]) >= 2
                => is_tunnel_safe(sorted_tunnel[1], a + a)

\* C13: is_tunnel_safe is sound: when it is true of a candidate, the window
\* holds two occurrences, distinct by age, whose sum is the candidate; a
\* step with one occurrence is not paired with itself.
C13_QueryIsSound ==
    sorted_tunnel # None =>
        \A c \in Candidates :
            is_tunnel_safe(sorted_tunnel[1], c)
                => PairInWindow(sorted_tunnel[1], c)

\* a step was reported that is twice a step with one occurrence, and the query
\* was true of another candidate on the same window
C13_Witness ==
    /\ pc = "Found"
    /\ result[1].step > 0
    /\ \E a \in DOMAIN sorted_tunnel[1].tunnel_map :
           /\ a + a = result[1].step
           /\ Len(sorted_tunnel[1].tunnel_map[a]) = 1
    /\ \E c \in Candidates : is_tunnel_safe(sorted_tunnel[1], c)

\* the number of shifts the scan has made: the window states it went
\* through after the seeded one
NumShifts == IF trace = <<>> THEN 0 ELSE Len(trace) - 1

\* C14: the window is shifted once per step found safe and never otherwise:
\* a scan that ends Safe made Len(steps) - tunnel_len shifts, a scan that
\* ends Found at index i made i - tunnel_len shifts, and the window only
\* changes in a shift by the step that the query has just found safe.
C14_OneShiftPerSafeStep ==
    /\ [](pc = "Safe" => NumShifts = Len(steps) - tunnel_len)
    /\ [](pc = "Found" => NumShifts = result[1].index - tunnel_len)
    /\ [][(sorted_tunnel # None /\ sorted_tunnel' # sorted_tunnel) =>
             /\ pc = "Shift"
             /\ is_tunnel_safe(sorted_tunnel[1], cur[1].step)
             /\ Len(trace') = Len(trace) + 1
             /\ <<cur[1].step, tunnel_len - 1>>
                    \in Occurrences(sorted_tunnel'[1])]_vars
    /\ [][(Len(trace') # Len(trace)) => pc \in {"New", "Shift"}]_vars

C14_Witness ==
    /\ pc \in {"Safe", "Found"}
    /\ NumShifts >= 2

\* the terminal states of the scan's state machine
Outcomes == {"VacuouslySafe", "Found", "Safe"}

\* C15: the scan terminates: it reaches one of VacuouslySafe, Found and
\* Safe and stays there, and it pulls each step of the input at most once
\* (the position in the input never goes back nor past the end).
C15_Terminates ==
    /\ <>(pc \in Outcomes)
    /\ [][(pc \in Outcomes) => pc' = pc]_vars
    /\ [][pos' >= pos]_vars
    /\ [](pos <= Len(steps))
    /\ [](sorted_tunnel # None => count + tunnel_len <= pos)

C15_Witness ==
    /\ pc = "Safe"
    /\ pos = Len(steps)
    /\ NumShifts >= 2

\* C16: no key of the map has an empty queue of ages, and the ages of each
\* queue are strictly ascending, so that the front of the queue that holds
\* age 0 is that age 0 and pop_front removes the oldest occurrence.
C16_QueuesAscending ==
    sorted_tunnel # None =>
        LET map == sorted_tunnel[1].tunnel_map
        IN /\ \A k \in DOMAIN map :
                  /\ Len(map[k]) > 0
                  /\ \A i \in 1..(Len(map[k]) - 1) : map[k][i] < map[k][i + 1]
           /\ TargetStep(map) # None /\ Head(map[TargetStep(map)[1]]) = 0

\* a shift has removed a key from the map, and a key has two occurrences
C16_Witness ==
    /\ sorted_tunnel # None
    /\ NumShifts >= 1
    /\ \E k \in DOMAIN trace[Len(trace) - 1].tunnel_map :
           k \notin DOMAIN sorted_tunnel[1].tunnel_map
    /\ \E k \in DOMAIN sorted_tunnel[1].tunnel_map :
           Len(sorted_tunnel[1].tunnel_map[k]) > 1

\* C17: with tunnel_len = 1 and an input of at least 2 steps the scan
\* returns Some((step at position 1, 1)) and makes no shift.
C17_WindowOfOne ==
    (tunnel_len = 1 /\ Len(steps) >= 2) =>
        /\ pc \notin {"VacuouslySafe", "Safe", "Shift", "Panic"}
        /\ NumShifts = 0
        /\ pc \in Terminal =>
              /\ pc = "Found"
              /\ result = Some([step |-> steps[2], index |-> 1])

C17_Witness ==
    /\ tunnel_len = 1
    /\ Len(steps) >= 3
    /\ pc = "Found"
    /\ steps[1] > 0
    /\ steps[2] = steps[1] + steps[1]

====
